---- MODULE Spec2Model ----
(***************************************************************************)
(* College recommendation app (src/appl.py): a Streamlit script that loads *)
(* College_data.csv through a cached load_data(), renders filter widgets   *)
(* and, when "Find Colleges" is pressed, filters, scores and ranks the     *)
(* rows.  Every user interaction reruns the script top to bottom.          *)
(*                                                                         *)
(* Numbers: the texts explored denote integers, so a float is modelled by  *)
(* the integer it equals.  Overall_Score is kept in hundredths (the        *)
(* weights 0.2, 0.15, 0.1 are 20, 15, 10 hundredths).                      *)
(***************************************************************************)
EXTENDS Integers, Sequences, FiniteSets

VARIABLES
    file,         \* College_data.csv on disk: [exists, header, rows]
    cache,        \* st.cache_data entry of load_data: [hit, value]
    df,           \* module-level df of the current script run
    widgets,      \* session widget values: state, stream, fee ranges, minima
    filtered_df,  \* ranked result of the run in which the button was pressed
    status,       \* "init", "ready", "results", "no_table", "exception"
    exc,          \* exception that ended the last script run, or "none"
    shown,        \* st.error messages rendered by the last script run
    queries       \* history: queries answered so far, "none", "one" or "many"

vars == <<file, cache, df, widgets, filtered_df, status, exc, shown, queries>>

----------------------------------------------------------------------------
(* Bounds of the exploration *)

MaxRows == 2

----------------------------------------------------------------------------
(* Columns *)

RatingColumns ==
    <<"Rating", "Academic", "Accommodation", "Faculty",
      "Infrastructure", "Placement", "Social_Life">>

RatingSet == {RatingColumns[i] : i \in 1..Len(RatingColumns)}

FeeColumns == {"UG_fee", "PG_fee"}

AllColumns == {"State", "Stream"} \cup FeeColumns \cup RatingSet

----------------------------------------------------------------------------
(* Cells of a DataFrame: a number, a string (object dtype) or NaN *)

Num(n) == [k |-> "num", n |-> n, s |-> <<>>]
Str(t) == [k |-> "str", n |-> 0, s |-> t]
NaN == [k |-> "nan", n |-> 0, s |-> <<>>]

ValueError == [k |-> "ValueError", n |-> 0, s |-> <<>>]

DigitChars == <<"0", "1", "2", "3", "4", "5", "6", "7", "8", "9">>

IsDigit(c) == \E i \in 1..10 : DigitChars[i] = c

DigitVal(c) == (CHOOSE i \in 1..10 : DigitChars[i] = c) - 1

IsDigits(t) == Len(t) > 0 /\ \A i \in 1..Len(t) : IsDigit(t[i])

RECURSIVE DigitsVal(_)
DigitsVal(t) ==
    IF Len(t) = 0 THEN 0
    ELSE 10 * DigitsVal(SubSeq(t, 1, Len(t) - 1)) + DigitVal(t[Len(t)])

\* The decimal texts float(), pd.to_numeric and the CSV parser all accept,
\* over the characters explored: an optional minus sign, then digits.
IsNumberText(t) ==
    \/ IsDigits(t)
    \/ Len(t) > 1 /\ t[1] = "-" /\ IsDigits(Tail(t))

NumberOf(t) == IF t[1] = "-" THEN 0 - DigitsVal(Tail(t)) ELSE DigitsVal(t)

\* str.replace(',', '')
RECURSIVE RemoveCommas(_)
RemoveCommas(t) ==
    IF Len(t) = 0 THEN <<>>
    ELSE IF Head(t) = "," THEN RemoveCommas(Tail(t))
    ELSE <<Head(t)>> \o RemoveCommas(Tail(t))

\* float(text): the number, or ValueError
FloatOf(t) == IF IsNumberText(t) THEN Num(NumberOf(t)) ELSE ValueError

\* clean_fee with str.replace(',', '', 1): only the first comma is removed
clean_fee_strip_first_only(fee_str) ==
    IF fee_str.k = "nan" \/ fee_str = Str(<<"-", "-">>) THEN Num(0)
    ELSE IF fee_str.k = "num" THEN Num(fee_str.n)
    ELSE LET t == fee_str.s
             i == IF \E j \in 1..Len(t) : t[j] = ","
                  THEN CHOOSE j \in 1..Len(t) :
                         t[j] = "," /\ \A h \in 1..(j - 1) : t[h] # ","
                  ELSE 0
         IN IF i = 0 THEN FloatOf(t)
            ELSE FloatOf(SubSeq(t, 1, i - 1) \o SubSeq(t, i + 1, Len(t)))

\* clean_fee: NaN or '--' is 0.0, otherwise float(str(fee_str).replace(',', '')).
\* str() of a numeric cell prints a text that float() reads back unchanged.
clean_fee(fee_str) ==
    IF fee_str.k = "nan" \/ fee_str = Str(<<"-", "-">>) THEN Num(0)
    ELSE IF fee_str.k = "num" THEN Num(fee_str.n)
    ELSE FloatOf(RemoveCommas(fee_str.s))

----------------------------------------------------------------------------
(* The CSV file and pd.read_csv *)

None == [loaded |-> FALSE, cols |-> {}, rows |-> <<>>]

NoFile == [exists |-> FALSE, header |-> {}, rows |-> <<>>]

\* A file is [exists, header, rows]; a row's text under a column that the
\* header lacks is never read.
\* A numeric column is one whose every non-empty cell is a number text; any
\* other column is read as object dtype and keeps its texts.  An empty cell
\* is NaN in both.
ColumnIsNumeric(rows, col) ==
    \A i \in 1..Len(rows) : rows[i][col] = <<>> \/ IsNumberText(rows[i][col])

ReadCell(t, numeric) ==
    IF t = <<>> THEN NaN
    ELSE IF numeric THEN Num(NumberOf(t))
    ELSE Str(t)

read_csv(f) ==
    [loaded |-> TRUE,
     cols |-> f.header,
     rows |-> [i \in 1..Len(f.rows) |->
        [c \in AllColumns \cup {"idx"} |->
            IF c = "idx" THEN i - 1
            ELSE IF c \in {"State", "Stream"} THEN f.rows[i][c]
            ELSE IF c \notin f.header THEN NaN
            ELSE ReadCell(f.rows[i][c], ColumnIsNumeric(f.rows, c))]]]

\* df[col] = df[col].apply(fn)
ApplyColumn(t, col, cells) ==
    [t EXCEPT !.rows = [i \in 1..Len(t.rows) |->
                            [t.rows[i] EXCEPT ![col] = cells[i]]]]

CleanedColumn(t, col) == [i \in 1..Len(t.rows) |-> clean_fee(t.rows[i][col])]

Raises(cells) == \E i \in 1..Len(cells) : cells[i] = ValueError

NotFoundMsg == "College_data.csv file not found"
UnableMsg == "Unable to load the college data"

\* The except clause without its handler: the error leaves load_data
FileNotFoundReraised ==
    [ret |-> None, exc |-> "FileNotFoundError", msg |-> {}]

\* except FileNotFoundError: st.error(...); return None
OnFileNotFound == [ret |-> None, exc |-> "none", msg |-> {NotFoundMsg}]

\* The body of load_data: what it returns, the exception that leaves it, and
\* the st.error it renders.
load_data(f) ==
    IF ~f.exists
    THEN OnFileNotFound
    ELSE
      LET t0 == read_csv(f) IN
      IF "UG_fee" \notin t0.cols
      THEN [ret |-> None, exc |-> "KeyError", msg |-> {}]
      ELSE
        LET ug == CleanedColumn(t0, "UG_fee") IN
        IF Raises(ug)
        THEN [ret |-> None, exc |-> "ValueError", msg |-> {}]
        ELSE
          LET t1 == ApplyColumn(t0, "UG_fee", ug) IN
          IF "PG_fee" \notin t1.cols
          THEN [ret |-> None, exc |-> "KeyError", msg |-> {}]
          ELSE
            LET pg == CleanedColumn(t1, "PG_fee") IN
            IF Raises(pg)
            THEN [ret |-> None, exc |-> "ValueError", msg |-> {}]
            ELSE [ret |-> ApplyColumn(t1, "PG_fee", pg),
                  exc |-> "none", msg |-> {}]

NoCache == [hit |-> FALSE, value |-> None, msg |-> {}]

\* @st.cache_data: a hit hands out a copy of the stored value and replays the
\* elements the function rendered; a miss runs the function and stores what
\* it returned.  An exception is not stored.
CachedLoad(c, f) ==
    IF c.hit
    THEN [ret |-> c.value, exc |-> "none", msg |-> c.msg, cache |-> c]
    ELSE LET r == load_data(f) IN
         [ret |-> r.ret, exc |-> r.exc, msg |-> r.msg,
          cache |-> IF r.exc = "none"
                    THEN [hit |-> TRUE, value |-> r.ret, msg |-> r.msg]
                    ELSE c]

----------------------------------------------------------------------------
(* The "Find Colleges" block *)

\* between with the right end left out
between_exclusive_right(x, left, right) == left <= x.n /\ x.n < right

\* Series.between(left, right): inclusive on both ends
between(x, left, right) == left <= x.n /\ x.n <= right

\* pd.to_numeric(col.replace('--', '0'), errors='coerce').fillna(0), per cell
RatingCoercion(cell) ==
    IF cell.k = "num" THEN cell
    ELSE IF cell.k = "nan" THEN Num(0)
    ELSE IF cell.s = <<"-", "-">> THEN Num(0)
    ELSE IF IsNumberText(cell.s) THEN Num(NumberOf(cell.s))
    ELSE Num(0)

\* for col in rating_columns: df[col] = ...
CoerceRatings(t) ==
    [t EXCEPT !.rows = [i \in 1..Len(t.rows) |->
        [c \in DOMAIN t.rows[i] |->
            IF c \in RatingSet THEN RatingCoercion(t.rows[i][c])
            ELSE t.rows[i][c]]]]

\* A comparison with NaN is False
AtLeast(cell, threshold) == cell.k = "num" /\ cell.n >= threshold

\* The state predicate applied even when "All" is selected
StateMaskAlways(row, w) == row.State = w.state

\* if state != "All": mask &= df["State"] == state
StateMask(row, w) == w.state # "All" => row.State = w.state

\* The fee predicates read df as loaded; the rating predicates read the
\* coerced columns.
Mask(row, w) ==
    /\ StateMask(row, w)
    /\ row.Stream = w.stream
    /\ between(row.UG_fee, w.ug[1], w.ug[2])
    /\ between(row.PG_fee, w.pg[1], w.pg[2])
    /\ AtLeast(row.Rating, w.min.Rating)
    /\ AtLeast(row.Academic, w.min.Academic)
    /\ AtLeast(row.Accommodation, w.min.Accommodation)
    /\ AtLeast(row.Faculty, w.min.Faculty)
    /\ AtLeast(row.Infrastructure, w.min.Infrastructure)
    /\ AtLeast(row.Placement, w.min.Placement)
    /\ AtLeast(row.Social_Life, w.min.Social_Life)

\* df[mask]: the rows the mask keeps, in table order
RECURSIVE SelectRows(_, _)
SelectRows(rows, w) ==
    IF Len(rows) = 0 THEN <<>>
    ELSE IF Mask(Head(rows), w)
         THEN <<Head(rows)>> \o SelectRows(Tail(rows), w)
         ELSE SelectRows(Tail(rows), w)

\* The score with the Placement and Faculty weights exchanged
OverallScoreSwapped(row) ==
    row.Rating.n * 20 + row.Academic.n * 20 + row.Placement.n * 10
    + row.Infrastructure.n * 15 + row.Faculty.n * 15
    + row.Accommodation.n * 10 + row.Social_Life.n * 10

\* Overall_Score, in hundredths
OverallScore(row) ==
    row.Rating.n * 20 + row.Academic.n * 20 + row.Placement.n * 15
    + row.Infrastructure.n * 15 + row.Faculty.n * 10
    + row.Accommodation.n * 10 + row.Social_Life.n * 10

WithScore(row) ==
    [c \in DOMAIN row \cup {"Overall_Score"} |->
        IF c = "Overall_Score" THEN OverallScore(row) ELSE row[c]]

\* Descending insertion; rows of equal score keep their table order
RECURSIVE InsertDesc(_, _)
InsertDesc(x, sorted) ==
    IF Len(sorted) = 0 THEN <<x>>
    ELSE IF Head(sorted).Overall_Score >= x.Overall_Score
         THEN <<Head(sorted)>> \o InsertDesc(x, Tail(sorted))
         ELSE <<x>> \o sorted

RECURSIVE SortFrom(_, _)
SortFrom(rows, acc) ==
    IF Len(rows) = 0 THEN acc
    ELSE SortFrom(Tail(rows), InsertDesc(Head(rows), acc))

\* sort_values with ascending left at its default
sort_values_ascending(rows) ==
    LET d == SortFrom(rows, <<>>) IN
    [i \in 1..Len(d) |-> d[Len(d) + 1 - i]]

\* filtered_df.sort_values("Overall_Score", ascending=False)
sort_values(rows) == SortFrom(rows, <<>>)

\* The block narrowing df itself to the rows kept (df = df[mask])
TableAfterQueryFiltered(t, w) ==
    LET c == CoerceRatings(t) IN [c EXCEPT !.rows = SelectRows(c.rows, w)]

\* What the block leaves in df: every row, the rating columns coerced
TableAfterQuery(t, w) == CoerceRatings(t)

\* The block from the button to the sorted filtered_df: the table it leaves
\* in df and the ranked result
FindColleges(t, w) ==
    LET coerced == CoerceRatings(t)
        kept == SelectRows(coerced.rows, w)
        scored == [i \in 1..Len(kept) |-> WithScore(kept[i])]
    IN [df |-> TableAfterQuery(t, w), out |-> sort_values(scored)]

----------------------------------------------------------------------------
(* Widgets *)

\* Names in sorted() order
StateNames == <<"Goa", "Kerala">>
StreamNames == <<"Arts", "CS">>

NoMinimum == [c \in RatingSet |-> 0]

NoWidgets ==
    [state |-> "All", stream |-> "", ug |-> <<0, 0>>, pg |-> <<0, 0>>,
     min |-> NoMinimum]

StatesOf(t) == {t.rows[i].State : i \in 1..Len(t.rows)}
StreamsOf(t) == {t.rows[i].Stream : i \in 1..Len(t.rows)}

\* float(df[col].max())
MaxFee(t, col) ==
    CHOOSE m \in {t.rows[i][col].n : i \in 1..Len(t.rows)} :
        \A i \in 1..Len(t.rows) : t.rows[i][col].n <= m

\* A selectbox starts on its first option
FirstOf(names, present) ==
    names[CHOOSE i \in 1..Len(names) :
            names[i] \in present /\ \A j \in 1..(i - 1) : names[j] \notin present]

\* The value every widget has in the first run of a session
Defaults(t) ==
    [state |-> "All",
     stream |-> FirstOf(StreamNames, StreamsOf(t)),
     ug |-> <<0, MaxFee(t, "UG_fee")>>,
     pg |-> <<0, MaxFee(t, "PG_fee")>>,
     min |-> NoMinimum]

\* Stops the sliders are moved to in the sessions explored
UgStops == {0}
PgStops == {0}
MinStops == {0, 6}

\* A range slider returns (low, high) with min_value <= low <= high <= max_value
SliderRanges(stops, max) ==
    {r \in (stops \cup {max}) \X (stops \cup {max}) :
        0 <= r[1] /\ r[1] <= r[2] /\ r[2] <= max}

----------------------------------------------------------------------------
(* One run of the script, top to bottom *)

\* The run in which the button is pressed, Q being what the block produced
Pressed(L, w, Q) ==
    [cache |-> L.cache, df |-> Q.df, widgets |-> w, filtered_df |-> Q.out,
     status |-> "results", exc |-> "none", shown |-> L.msg]

\* The script after df = load_data(), L being what the cached call gave
Script(L, w, first, clicked) ==
    IF L.exc # "none"
    THEN [cache |-> L.cache, df |-> None, widgets |-> NoWidgets,
          filtered_df |-> <<>>, status |-> "exception", exc |-> L.exc,
          shown |-> L.msg]
    ELSE IF ~L.ret.loaded
    THEN [cache |-> L.cache, df |-> None, widgets |-> NoWidgets,
          filtered_df |-> <<>>, status |-> "no_table", exc |-> "none",
          shown |-> L.msg \cup {UnableMsg}]
    ELSE IF ~({"State", "Stream"} \subseteq L.ret.cols)
    THEN [cache |-> L.cache, df |-> L.ret, widgets |-> NoWidgets,
          filtered_df |-> <<>>, status |-> "exception", exc |-> "KeyError",
          shown |-> L.msg]
    ELSE IF ~clicked
    THEN [cache |-> L.cache, df |-> L.ret,
          widgets |-> IF first THEN Defaults(L.ret) ELSE w,
          filtered_df |-> <<>>, status |-> "ready", exc |-> "none",
          shown |-> L.msg]
    ELSE CHOOSE R \in {Pressed(L, w, Q) : Q \in {FindColleges(L.ret, w)}} : TRUE

Run(w, first, clicked) ==
    \E L \in {CachedLoad(cache, file)} :
    \E R \in {Script(L, w, first, clicked)} :
        /\ cache' = R.cache
        /\ df' = R.df
        /\ widgets' = R.widgets
        /\ filtered_df' = R.filtered_df
        /\ status' = R.status
        /\ exc' = R.exc
        /\ shown' = R.shown
        /\ queries' = IF R.status # "results" THEN queries
                      ELSE IF queries = "none" THEN "one" ELSE "many"
        /\ UNCHANGED file

Rendered == status \in {"ready", "results"}

StartSession ==
    /\ status = "init"
    /\ Run(NoWidgets, TRUE, FALSE)

\* A rerun with no widget changed
Rerun ==
    /\ status # "init"
    /\ Run(widgets, ~Rendered, FALSE)

SelectState(s) ==
    /\ Rendered
    /\ s \in {"All"} \cup StatesOf(cache.value)
    /\ s # widgets.state
    /\ Run([widgets EXCEPT !.state = s], FALSE, FALSE)

SelectStream(s) ==
    /\ Rendered
    /\ s \in StreamsOf(cache.value)
    /\ s # widgets.stream
    /\ Run([widgets EXCEPT !.stream = s], FALSE, FALSE)

SlideUgFee ==
    /\ Rendered
    /\ \E r \in SliderRanges(UgStops, MaxFee(cache.value, "UG_fee")) :
         /\ r # widgets.ug
         /\ Run([widgets EXCEPT !.ug = r], FALSE, FALSE)

SlidePgFee ==
    /\ Rendered
    /\ \E r \in SliderRanges(PgStops, MaxFee(cache.value, "PG_fee")) :
         /\ r # widgets.pg
         /\ Run([widgets EXCEPT !.pg = r], FALSE, FALSE)

\* The sessions explored raise one rating minimum at a time
SlideMin(col, v) ==
    /\ Rendered
    /\ v # widgets.min[col]
    /\ \A c \in RatingSet \ {col} : widgets.min[c] = 0
    /\ Run([widgets EXCEPT !.min[col] = v], FALSE, FALSE)

ClickFind ==
    /\ Rendered
    /\ Run(widgets, FALSE, TRUE)

----------------------------------------------------------------------------
(* The files explored *)

RawRow(state, stream, ug, pg, r) ==
    [State |-> state, Stream |-> stream, UG_fee |-> ug, PG_fee |-> pg,
     Rating |-> r[1], Academic |-> r[2], Accommodation |-> r[3],
     Faculty |-> r[4], Infrastructure |-> r[5], Placement |-> r[6],
     Social_Life |-> r[7]]

Same(t) == <<t, t, t, t, t, t, t>>

Placeholder == <<"-", "-">>
Lakh == <<"1", ",", "2", "3", ",", "4", "5", "6">>

SampleRows ==
    { RawRow("Goa", "CS", <<"5", "0">>, <<"1", "0", "0">>, Same(<<"1", "0">>)),
      RawRow("Goa", "CS", Lakh, Placeholder, Same(<<"0">>)),
      RawRow("Kerala", "Arts", <<"1", "0", "0">>, <<"5", "0">>,
             <<(<<"7">>), (<<"x">>), Placeholder, (<<>>), (<<"1", "0">>),
               (<<"-", "3">>), (<<"8">>)>>),
      RawRow("Goa", "Arts", <<"-", "5">>, <<>>,
             <<(<<"1", "0">>), (<<"5">>), (<<"5">>), (<<"5">>), (<<"5">>),
               (<<"5">>), (<<"5">>)>>),
      RawRow("Kerala", "CS", <<"5", "0">>, <<"5", "0">>,
             <<(<<"8">>), (<<"6">>), (<<"4">>), (<<"2">>), (<<"9">>),
               (<<"7">>), (<<"5">>)>>),
      RawRow("Goa", "CS", <<"x">>, <<"5", "0">>, Same(<<"5">>)) }

RowSeqs == UNION {[1..n -> SampleRows] : n \in 1..MaxRows}

\* Every header explored holds Stream and the seven rating columns
Headers ==
    {AllColumns, AllColumns \ {"UG_fee"}, AllColumns \ {"PG_fee"},
     AllColumns \ {"State"}}

\* Both fee sliders need a track: a positive maximum fee
Renderable(f) ==
    LET r == load_data(f) IN
    (r.exc = "none" /\ r.ret.loaded /\ f.header = AllColumns)
        => (MaxFee(r.ret, "UG_fee") > 0 /\ MaxFee(r.ret, "PG_fee") > 0)

Files ==
    {NoFile} \cup
    {f \in [exists : {TRUE}, header : Headers, rows : RowSeqs] : Renderable(f)}

----------------------------------------------------------------------------
(* The session *)

Init ==
    /\ file \in Files
    /\ cache = NoCache
    /\ df = None
    /\ widgets = NoWidgets
    /\ filtered_df = <<>>
    /\ status = "init"
    /\ exc = "none"
    /\ shown = {}
    /\ queries = "none"

Next ==
    \/ StartSession
    \/ Rerun
    \/ \E s \in {"All"} \cup {StateNames[i] : i \in 1..Len(StateNames)} :
         SelectState(s)
    \/ \E s \in {StreamNames[i] : i \in 1..Len(StreamNames)} : SelectStream(s)
    \/ SlideUgFee
    \/ SlidePgFee
    \/ \E col \in RatingSet, v \in MinStops : SlideMin(col, v)
    \/ ClickFind

Spec == Init /\ [][Next]_vars

----------------------------------------------------------------------------
(* The query block under any FilterCriteria: the table is loaded and the   *)
(* caller supplies the criteria, fee ranges with min > max included.       *)

EngineRanges == {<<0, 100>>, <<50, 50>>, <<100, 50>>, <<0, 123456>>}

EngineMinima ==
    {NoMinimum} \cup {[NoMinimum EXCEPT ![c] = 6] : c \in {"Rating", "Placement"}}

EngineFiles ==
    {f \in Files : f.exists /\ f.header = AllColumns /\ load_data(f).exc = "none"}

EngineInit ==
    /\ file \in EngineFiles
    /\ cache = [hit |-> TRUE, value |-> load_data(file).ret, msg |-> {}]
    /\ df = cache.value
    /\ widgets \in [state : {"All"} \cup StatesOf(df),
                    stream : StreamsOf(df),
                    ug : EngineRanges,
                    pg : EngineRanges,
                    min : EngineMinima]
    /\ filtered_df = <<>>
    /\ status = "ready"
    /\ exc = "none"
    /\ shown = {}
    /\ queries = "none"

EngineNext == ClickFind

EngineSpec == EngineInit /\ [][EngineNext]_vars

----------------------------------------------------------------------------
(* Reference values, read off the file *)

\* The number a fee text stands for: 0 for a missing cell or the placeholder,
\* otherwise its digits with the commas dropped
FeeValue(t) ==
    IF t = <<>> \/ t = Placeholder THEN 0 ELSE NumberOf(RemoveCommas(t))

\* The number a rating text stands for: 0 unless the text is a number
RatingValue(t) == IF IsNumberText(t) THEN NumberOf(t) ELSE 0

Satisfies(raw, w) ==
    /\ w.state # "All" => raw.State = w.state
    /\ raw.Stream = w.stream
    /\ w.ug[1] <= FeeValue(raw.UG_fee) /\ FeeValue(raw.UG_fee) <= w.ug[2]
    /\ w.pg[1] <= FeeValue(raw.PG_fee) /\ FeeValue(raw.PG_fee) <= w.pg[2]
    /\ \A c \in RatingSet : RatingValue(raw[c]) >= w.min[c]

\* A result row is row i of the file, normalized
IsRowOf(row, i) ==
    /\ row.idx = i - 1
    /\ row.State = file.rows[i].State
    /\ row.Stream = file.rows[i].Stream
    /\ \A c \in FeeColumns : row[c] = Num(FeeValue(file.rows[i][c]))
    /\ \A c \in RatingSet : row[c] = Num(RatingValue(file.rows[i][c]))

InResult(i) == \E j \in 1..Len(filtered_df) : filtered_df[j].idx = i - 1

----------------------------------------------------------------------------
(* Claims *)

\* C1: after a query, a row of the dataset is in the result if and only if it
\* satisfies every active predicate (stream, state unless "All", both fee
\* ranges inclusive, the seven rating minima); the result holds rows of the
\* dataset only, each once.
C1_FilterIsConjunction ==
    status = "results" =>
        /\ \A i \in 1..Len(file.rows) :
              InResult(i) <=> Satisfies(file.rows[i], widgets)
        /\ \A j \in 1..Len(filtered_df) :
              /\ filtered_df[j].idx + 1 \in 1..Len(file.rows)
              /\ IsRowOf(filtered_df[j], filtered_df[j].idx + 1)
        /\ \A j, h \in 1..Len(filtered_df) :
              filtered_df[j].idx = filtered_df[h].idx => j = h

C1_Witness ==
    /\ status = "results"
    /\ widgets.state # "All"
    /\ \E c \in RatingSet : widgets.min[c] > 0
    /\ Len(filtered_df) = 1
    /\ Len(file.rows) = 2

\* C2: the ranked output is sorted descending by Overall_Score: each record's
\* score is at least the score of the record after it.
C2_SortedDescending ==
    status = "results" =>
        \A j \in 1..(Len(filtered_df) - 1) :
            filtered_df[j].Overall_Score >= filtered_df[j + 1].Overall_Score

C2_Witness ==
    /\ status = "results"
    /\ Len(filtered_df) = 2
    /\ filtered_df[1].idx > filtered_df[2].idx
    /\ filtered_df[1].Overall_Score > filtered_df[2].Overall_Score

\* C3: every record of the output carries Overall_Score = 0.20 Rating +
\* 0.20 Academic + 0.15 Placement + 0.15 Infrastructure + 0.10 Faculty +
\* 0.10 Accommodation + 0.10 Social_Life of its own ratings (in hundredths);
\* all ratings 10 give 10.0 and all ratings 0 give 0.0.
C3_WeightedScore ==
    status = "results" =>
        \A j \in 1..Len(filtered_df) :
            LET r == filtered_df[j] IN
            /\ r.Overall_Score =
                  20 * r.Rating.n + 20 * r.Academic.n + 15 * r.Placement.n
                  + 15 * r.Infrastructure.n + 10 * r.Faculty.n
                  + 10 * r.Accommodation.n + 10 * r.Social_Life.n
            /\ (\A c \in RatingSet : r[c] = Num(10)) => r.Overall_Score = 1000
            /\ (\A c \in RatingSet : r[c] = Num(0)) => r.Overall_Score = 0

C3_Witness ==
    /\ status = "results"
    /\ \E j \in 1..Len(filtered_df) :
          /\ filtered_df[j].Placement.n # filtered_df[j].Faculty.n
          /\ filtered_df[j].Overall_Score = 630
    /\ \E j \in 1..Len(filtered_df) : filtered_df[j].Overall_Score = 1000

\* A fee text that is missing, the placeholder, or a number with separators
FeeTextReadable(t) ==
    t = <<>> \/ t = Placeholder \/ IsNumberText(RemoveCommas(t))

\* C4: a fee cell that is missing or "--" normalizes to 0.0 and "1,23,456" to
\* 123456.0, such cells never stopping the load; a rating cell that is "--"
\* or not a number is 0.0 once the query has coerced the ratings.
C4_PlaceholdersNormalize ==
    /\ ( /\ file.exists
         /\ file.header = AllColumns
         /\ status # "init"
         /\ \A i \in 1..Len(file.rows) : \A c \in FeeColumns :
               FeeTextReadable(file.rows[i][c]) )
       => Rendered
    /\ Rendered =>
         \A i \in 1..Len(file.rows) : \A c \in FeeColumns :
            /\ file.rows[i][c] \in {<<>>, Placeholder} => df.rows[i][c] = Num(0)
            /\ file.rows[i][c] = Lakh => df.rows[i][c] = Num(123456)
    /\ status = "results" =>
         \A i \in 1..Len(file.rows) : \A c \in RatingSet :
            (file.rows[i][c] = Placeholder \/ ~IsNumberText(file.rows[i][c]))
              => df.rows[i][c] = Num(0)

C4_Witness ==
    /\ status = "results"
    /\ \E i \in 1..Len(file.rows) :
          file.rows[i].UG_fee = Lakh /\ file.rows[i].PG_fee = Placeholder
    /\ \E i \in 1..Len(file.rows) :
          /\ file.rows[i].Accommodation = Placeholder
          /\ file.rows[i].Academic = <<"x">>
          /\ file.rows[i].Faculty = <<>>

\* Every predicate but the range on fee column col
PassesOthers(raw, w, col) ==
    /\ w.state # "All" => raw.State = w.state
    /\ raw.Stream = w.stream
    /\ \A c \in RatingSet : RatingValue(raw[c]) >= w.min[c]
    /\ \A c \in FeeColumns \ {col} :
          LET r == IF c = "UG_fee" THEN w.ug ELSE w.pg IN
          r[1] <= FeeValue(raw[c]) /\ FeeValue(raw[c]) <= r[2]

\* C5: a fee range with min = max keeps exactly the rows, among those passing
\* the other predicates, whose fee equals that value; a range with min > max
\* gives an empty result and no error.
C5_DegenerateFeeRanges ==
    status = "results" =>
        /\ exc = "none"
        /\ widgets.ug[1] = widgets.ug[2] =>
              \A i \in 1..Len(file.rows) :
                 InResult(i) <=>
                    /\ PassesOthers(file.rows[i], widgets, "UG_fee")
                    /\ FeeValue(file.rows[i].UG_fee) = widgets.ug[1]
        /\ widgets.pg[1] = widgets.pg[2] =>
              \A i \in 1..Len(file.rows) :
                 InResult(i) <=>
                    /\ PassesOthers(file.rows[i], widgets, "PG_fee")
                    /\ FeeValue(file.rows[i].PG_fee) = widgets.pg[1]
        /\ (widgets.ug[1] > widgets.ug[2] \/ widgets.pg[1] > widgets.pg[2]) =>
              filtered_df = <<>>

C5_Witness ==
    /\ status = "results"
    /\ widgets.ug = <<50, 50>>
    /\ widgets.pg = <<0, 100>>
    /\ Len(filtered_df) = 1
    /\ \E i \in 1..Len(file.rows) :
          /\ ~InResult(i)
          /\ PassesOthers(file.rows[i], widgets, "UG_fee")

\* C6: with the source file absent, load_data returns no table, the error is
\* shown, no exception leaves the script and the query block is never entered.
C6_MissingFileNoQuery ==
    (~file.exists /\ status # "init") =>
        /\ status = "no_table"
        /\ df = None
        /\ cache.value = None
        /\ NotFoundMsg \in shown
        /\ exc = "none"
        /\ filtered_df = <<>>
        /\ queries = "none"

C6_Witness ==
    /\ ~file.exists
    /\ status = "no_table"
    /\ cache.hit

\* C7: a query leaves every cell of the loaded table as load_data returned it.
C7_QueryLeavesTableUntouched == status = "results" => df = cache.value

\* C8: with the file present and UG_fee or PG_fee absent from it, the load
\* ends in an error outcome shown to the user like the missing file's, not in
\* an exception.
C8_MissingColumnIsMalformed ==
    ( /\ file.exists
      /\ ~(FeeColumns \subseteq file.header)
      /\ \A i \in 1..Len(file.rows) : \A c \in FeeColumns \cap file.header :
            FeeTextReadable(file.rows[i][c])
      /\ status # "init" ) =>
        /\ exc = "none"
        /\ status = "no_table"
        /\ UnableMsg \in shown

\* C9: whenever a table is available to queries, each of its fee and rating
\* cells is a number >= 0, none the "--" placeholder.
C9_NumericFieldsNormalized ==
    Rendered =>
        \A i \in 1..Len(df.rows) : \A c \in FeeColumns \cup RatingSet :
            df.rows[i][c].k = "num" /\ df.rows[i][c].n >= 0

\* C10: each query's ranked result is the one its criteria give as the first
\* query on the table load_data hands to a fresh run, and the table the query
\* leaves behind answers the same and the default criteria as that table does.
C10_NoLeakAcrossQueries ==
    status = "results" =>
        /\ \A first \in {FindColleges(cache.value, widgets).out} :
              /\ filtered_df = first
              /\ FindColleges(df, widgets).out = first
        /\ \A w \in {Defaults(cache.value)} :
              FindColleges(df, w).out = FindColleges(cache.value, w).out

C10_Witness ==
    /\ status = "results"
    /\ queries = "many"
    /\ df # cache.value
    /\ widgets # Defaults(cache.value)
    /\ Len(filtered_df) >= 1

====
